---- MODULE Spec2Model ----
(***************************************************************************)
(* Switchable-graphics core of system76-power (src/src/graphics.rs):       *)
(* the topology snapshot built by Graphics::new, the vendor-mode           *)
(* operations (get_vendor / set_vendor), the power toggle (get_power /     *)
(* set_power / auto_power) and the GraphicsDevice unbind / remove          *)
(* lifecycle, as one state machine over the OS state they read and write.  *)
(*                                                                         *)
(* Text is modelled as it is stored: the PRIME mode file is a sequence of  *)
(* characters, the modprobe configuration a sequence of lines.             *)
(***************************************************************************)
EXTENDS Integers, Sequences, FiniteSets, TLC

(* ------------------------------ bounds -------------------------------- *)

\* Largest number of NVIDIA display controllers on the bus (SpecPower).
MaxNvidia == 2

\* Largest number of units (characters / lines) a failing file write leaves
\* behind before the error is reported.
MaxPartial == 1

(* ------------------------- program constants -------------------------- *)

VENDOR_AMD == 4098      \* 0x1002
VENDOR_NVIDIA == 4318   \* 0x10DE
VENDOR_INTEL == 32902   \* 0x8086
CLASS_DISPLAY == 3      \* 0x03

MODPROBE_NVIDIA ==
    << "# Automatically generated by system76-power",
       "options nvidia-drm modeset=1" >>

MODPROBE_HYBRID ==
    << "# Automatically generated by system76-power",
       "blacklist i2c_nvidia_gpu",
       "alias i2c_nvidia_gpu off",
       "options nvidia NVreg_DynamicPowerManagement=0x02",
       "options nvidia-drm modeset=1" >>

MODPROBE_COMPUTE ==
    << "# Automatically generated by system76-power",
       "blacklist i2c_nvidia_gpu",
       "blacklist nvidia-drm",
       "blacklist nvidia-modeset",
       "alias i2c_nvidia_gpu off",
       "alias nvidia-drm off",
       "alias nvidia-modeset off",
       "options nvidia NVreg_DynamicPowerManagement=0x02" >>

MODPROBE_INTEGRATED ==
    << "# Automatically generated by system76-power",
       "blacklist i2c_nvidia_gpu",
       "blacklist nouveau",
       "blacklist nvidia",
       "blacklist nvidia-drm",
       "blacklist nvidia-modeset",
       "alias i2c_nvidia_gpu off",
       "alias nouveau off",
       "alias nvidia off",
       "alias nvidia-drm off",
       "alias nvidia-modeset off" >>

(* ------------------------------- text --------------------------------- *)

\* The three literals set_vendor writes to the PRIME mode file.
ModeOnDemand == << "o", "n", "-", "d", "e", "m", "a", "n", "d", "\n" >>
ModeOn == << "o", "n", "\n" >>
ModeOff == << "o", "f", "f", "\n" >>

\* The literals get_vendor compares the trimmed PRIME content with.
StrOnDemand == << "o", "n", "-", "d", "e", "m", "a", "n", "d" >>
StrOff == << "o", "f", "f" >>
\* The fallback get_vendor uses when the PRIME file cannot be read.
StrNvidia == << "n", "v", "i", "d", "i", "a" >>

WhiteSpace == { " ", "\n", "\t", "\r" }

RECURSIVE TrimStart(_)
TrimStart(s) ==
    IF s # << >> /\ Head(s) \in WhiteSpace THEN TrimStart(Tail(s)) ELSE s

RECURSIVE TrimEnd(_)
TrimEnd(s) ==
    IF s # << >> /\ s[Len(s)] \in WhiteSpace
    THEN TrimEnd(SubSeq(s, 1, Len(s) - 1))
    ELSE s

\* str::trim
Trim(s) == TrimEnd(TrimStart(s))

\* What a write of `data` that reports an error may leave in the file it
\* had already created/truncated: a proper prefix of the data.
PartialWrites(data) ==
    { SubSeq(data, 1, k) : k \in 0 .. (IF MaxPartial < Len(data) THEN MaxPartial ELSE Len(data) - 1) }

(* ------------------------------ PCI bus ------------------------------- *)

\* A PCI function as PciDevice::all lists it. id = [slot, fn] stands for
\* the sysfs name "<slot>.<fn>"; class is the 24-bit class code.
PciFn(slot, fn, class, vendor) ==
    [ id |-> [slot |-> slot, fn |-> fn], class |-> class, vendor |-> vendor ]

\* id.split('.').next()
SlotOf(id) == id.slot

Ids(devs) == [ i \in 1 .. Len(devs) |-> devs[i].id ]

\* The closure `functions` of Graphics::new: every listed function that
\* shares the parent's slot, in listing order.
Functions(parent, devs) ==
    Ids(SelectSeq(devs, LAMBDA f : SlotOf(f.id) = SlotOf(parent.id)))

\* Mutant: the sub-class byte is taken for the class byte.
ClassByte_subclass(c) == (c \div 256) % 256

\* (c >> 16) & 0xFF
ClassByte(c) == (c \div 65536) % 256

\* GraphicsDevice::new
GraphicsDevice(id, functions) == [ id |-> id, functions |-> functions ]

BucketOf(vendor) ==
    IF vendor = VENDOR_AMD THEN "amd"
    ELSE IF vendor = VENDOR_NVIDIA THEN "nvidia"
    ELSE IF vendor = VENDOR_INTEL THEN "intel"
    ELSE "other"

\* The scan loop of Graphics::new restricted to one bucket.
Bucket(devs, name) ==
    LET heads == SelectSeq(devs, LAMBDA d :
                     ClassByte(d.class) = CLASS_DISPLAY /\ BucketOf(d.vendor) = name)
    IN  [ i \in 1 .. Len(heads) |->
            GraphicsDevice(heads[i].id, Functions(heads[i], devs)) ]

\* Hardware populations: a host bridge, optional Intel / AMD / other
\* display controllers, and n NVIDIA GPUs of two functions each
\* (VGA controller + HD-audio controller).
RECURSIVE NvidiaFns(_)
NvidiaFns(n) ==
    IF n = 0 THEN << >>
    ELSE NvidiaFns(n - 1) \o
         << PciFn(n, 0, 196608, VENDOR_NVIDIA), PciFn(n, 1, 262912, VENDOR_NVIDIA) >>

Population(n, hasIntel, hasAmd, hasOther) ==
    << PciFn(0, 0, 393216, VENDOR_INTEL) >>
    \o (IF hasIntel THEN << PciFn(20, 0, 196608, VENDOR_INTEL) >> ELSE << >>)
    \o NvidiaFns(n)
    \o (IF hasAmd THEN << PciFn(30, 0, 196608, VENDOR_AMD) >> ELSE << >>)
    \o (IF hasOther THEN << PciFn(40, 0, 196608, 6659) >> ELSE << >>)

(* ------------------------------- state -------------------------------- *)

VARIABLES
    devs,       \* the hardware: every PCI function the machine has
    amd, intel, nvidia, other,   \* Graphics: the buckets of the snapshot
    present,    \* ids of the functions whose sysfs path exists
    bound,      \* ids of the functions that have a driver bound
    prime,      \* /etc/prime-discrete: [exists, data]
    modprobe,   \* /etc/modprobe.d/system76-power.conf: [exists, data]
    service,    \* nvidia-fallback.service is enabled
    last        \* the call that just returned: operation, argument,
                \* result, the OS calls it issued, the state it started in

vars == << devs, amd, intel, nvidia, other, present, bound, prime, modprobe, service, last >>

topology == << devs, amd, intel, nvidia, other >>
busState == << present, bound >>
vendorState == << prime, modprobe, service >>

NoFile == [ exists |-> FALSE, data |-> << >> ]
File(data) == [ exists |-> TRUE, data |-> data ]

AllIds == { devs[i].id : i \in 1 .. Len(devs) }

Range(s) == { s[i] : i \in 1 .. Len(s) }

\* An OS call issued by an operation, with its outcome.
Call(name, target, out) == [ call |-> name, target |-> target, out |-> out ]

\* The bus an unbind / remove / power operation started from.
NoPre == [ present |-> {}, bound |-> {} ]
PreBus == [ present |-> present, bound |-> bound ]

Returned(op, arg, err, val, calls, pre) ==
    [ op |-> op, arg |-> arg, err |-> err, val |-> val, calls |-> calls, pre |-> pre ]

(* --------------------------- switchability ---------------------------- *)

\* Mutant: any non-NVIDIA display controller makes the machine switchable.
can_switch_counting_other ==
    nvidia # << >> /\ (intel # << >> \/ amd # << >> \/ other # << >>)

\* Graphics::can_switch
can_switch == nvidia # << >> /\ (intel # << >> \/ amd # << >>)

\* Mutant: the check only asks for an NVIDIA GPU.
switchable_or_fail_nvidia_only == IF nvidia # << >> THEN "Ok" ELSE "NotSwitchable"

\* Graphics::switchable_or_fail
switchable_or_fail == IF can_switch THEN "Ok" ELSE "NotSwitchable"

CanSwitch ==
    /\ last' = Returned("can_switch", "", "Ok", can_switch, << >>, NoPre)
    /\ UNCHANGED << topology, busState, vendorState >>

(* ----------------------------- get_vendor ----------------------------- *)

\* Module::all(): the fetch fails, or yields the loaded modules' names:
\* i915, with or without nouveau and nvidia.
ModulesFetchFailed == [ ok |-> FALSE, names |-> {} ]
ModuleLists ==
    { ModulesFetchFailed }
    \cup { [ ok |-> TRUE, names |-> { "i915" } \cup S ] : S \in SUBSET { "nouveau", "nvidia" } }

\* Mutant: the content is compared untrimmed.
get_prime_discrete_untrimmed(file) ==
    IF file.exists
    THEN [ err |-> "Ok", val |-> file.data ]
    ELSE [ err |-> "PrimeModeRead", val |-> << >> ]

\* Graphics::get_prime_discrete
get_prime_discrete(file) ==
    IF file.exists
    THEN [ err |-> "Ok", val |-> Trim(file.data) ]
    ELSE [ err |-> "PrimeModeRead", val |-> << >> ]

\* Mutant: a PRIME file reading off is reported as integrated.
get_vendor_off_is_integrated(modules, file) ==
    IF ~modules.ok THEN [ err |-> "ModulesFetch", val |-> "" ]
    ELSE IF \E m \in modules.names : m = "nouveau" \/ m = "nvidia"
    THEN LET read == get_prime_discrete(file)
             mode == IF read.err = "Ok" THEN read.val ELSE StrNvidia
         IN  IF mode = StrOnDemand THEN [ err |-> "Ok", val |-> "hybrid" ]
             ELSE IF mode = StrOff THEN [ err |-> "Ok", val |-> "integrated" ]
             ELSE [ err |-> "Ok", val |-> "nvidia" ]
    ELSE [ err |-> "Ok", val |-> "integrated" ]

\* Graphics::get_vendor, given what Module::all() returned and the PRIME file.
get_vendor(modules, file) ==
    IF ~modules.ok THEN [ err |-> "ModulesFetch", val |-> "" ]
    ELSE IF \E m \in modules.names : m = "nouveau" \/ m = "nvidia"
    THEN LET read == get_prime_discrete(file)
             mode == IF read.err = "Ok" THEN read.val ELSE StrNvidia
         IN  IF mode = StrOnDemand THEN [ err |-> "Ok", val |-> "hybrid" ]
             ELSE IF mode = StrOff THEN [ err |-> "Ok", val |-> "compute" ]
             ELSE [ err |-> "Ok", val |-> "nvidia" ]
    ELSE [ err |-> "Ok", val |-> "integrated" ]

GetVendor(modules) ==
    /\ last' = LET r == get_vendor(modules, prime)
               IN  Returned("get_vendor", modules, r.err, r.val, << >>, NoPre)
    /\ UNCHANGED << topology, busState, vendorState >>

(* ----------------------------- set_vendor ----------------------------- *)

Vendors == { "integrated", "hybrid", "nvidia", "compute", "discrete" }

\* Mutant: compute keeps the discrete GPU rendering.
ModeFor_compute_on(vendor) ==
    IF vendor = "hybrid" THEN ModeOnDemand
    ELSE IF vendor = "nvidia" \/ vendor = "compute" THEN ModeOn
    ELSE ModeOff

\* graphics.rs:370-377
ModeFor(vendor) ==
    IF vendor = "hybrid" THEN ModeOnDemand
    ELSE IF vendor = "nvidia" THEN ModeOn
    ELSE ModeOff

\* Mutant: the compute branch is missing.
TemplateFor_no_compute(vendor) ==
    IF vendor = "hybrid" THEN MODPROBE_HYBRID
    ELSE IF vendor = "nvidia" THEN MODPROBE_NVIDIA
    ELSE MODPROBE_INTEGRATED

\* graphics.rs:392-400
TemplateFor(vendor) ==
    IF vendor = "hybrid" THEN MODPROBE_HYBRID
    ELSE IF vendor = "compute" THEN MODPROBE_COMPUTE
    ELSE IF vendor = "nvidia" THEN MODPROBE_NVIDIA
    ELSE MODPROBE_INTEGRATED

\* Mutant: the fallback service is enabled for hybrid too.
ServiceActionFor_hybrid_too(vendor) ==
    IF vendor = "nvidia" \/ vendor = "hybrid" THEN "enable" ELSE "disable"

\* graphics.rs:409-415
ServiceActionFor(vendor) == IF vendor = "nvidia" THEN "enable" ELSE "disable"

\* What a run of set_vendor leaves behind and returns.
Ran(p, m, s, err, val, calls) ==
    [ prime |-> p, modprobe |-> m, service |-> s, err |-> err, val |-> val, calls |-> calls ]

ToolExits == { "exit0", "exit1", "exit2" }

\* One initramfs tool run to its end (graphics.rs:440-446 and 451-458).
RebuildWith(tool, flag, p, m, s, calls) ==
    { Ran(p, m, s, "Command", tool, Append(calls, Call(tool, flag, "spawn_err"))) }
    \cup { Ran(p, m, s, IF x = "exit0" THEN "Ok" ELSE "UpdateInitramfs", x,
               Append(calls, Call(tool, flag, x))) : x \in ToolExits }

\* Mutant: the traditional tool is preferred when dracut is present.
RebuildInitramfs_swapped(p, m, s, calls) ==
    { Ran(p, m, s, "Command", "dracut", Append(calls, Call("command", "-v dracut", "spawn_err"))) }
    \cup RebuildWith("update-initramfs", "-u", p, m, s,
                     Append(calls, Call("command", "-v dracut", "exit0")))
    \cup RebuildWith("dracut", "--force", p, m, s,
                     Append(calls, Call("command", "-v dracut", "exit1")))

\* graphics.rs:431-462: the presence check, then one of the two tools.
RebuildInitramfs(p, m, s, calls) ==
    { Ran(p, m, s, "Command", "dracut", Append(calls, Call("command", "-v dracut", "spawn_err"))) }
    \cup RebuildWith("dracut", "--force", p, m, s,
                     Append(calls, Call("command", "-v dracut", "exit0")))
    \cup RebuildWith("update-initramfs", "-u", p, m, s,
                     Append(calls, Call("command", "-v dracut", "exit1")))

\* Mutant: a non-zero exit of systemctl is fatal.
ToggleService_fatal_exit(vendor, p, m, s, calls) ==
    LET action == ServiceActionFor(vendor)
    IN  { Ran(p, m, s, "Command", "systemctl", Append(calls, Call("systemctl", action, out)))
          : out \in { "spawn_err", "exit1" } }
        \cup RebuildInitramfs(p, m, action = "enable", Append(calls, Call("systemctl", action, "exit0")))

\* graphics.rs:407-429: systemctl enable|disable nvidia-fallback.service.
ToggleService(vendor, p, m, s, calls) ==
    LET action == ServiceActionFor(vendor)
    IN  { Ran(p, m, s, "Command", "systemctl", Append(calls, Call("systemctl", action, "spawn_err"))) }
        \cup RebuildInitramfs(p, m, action = "enable", Append(calls, Call("systemctl", action, "exit0")))
        \cup RebuildInitramfs(p, m, s, Append(calls, Call("systemctl", action, "exit1")))

\* graphics.rs:382-405: open the modprobe file (create, truncate, write),
\* write the template and sync it.
WriteModprobe(vendor, p, m, s, calls) ==
    LET text == TemplateFor(vendor)
        opened == Append(calls, Call("open_modprobe", "create+truncate+write", "ok"))
    IN  { Ran(p, m, s, "ModprobeFileOpen", "",
              Append(calls, Call("open_modprobe", "create+truncate+write", "err"))) }
        \cup { Ran(p, File(left), s, "ModprobeFileWrite", "",
                   Append(opened, Call("write_modprobe", text, "err")))
               : left \in PartialWrites(text) \cup { text } }
        \cup ToggleService(vendor, p, File(text), s,
                           Append(opened, Call("write_modprobe", text, "ok")))

\* Mutant: a failed PRIME write does not stop the call.
WritePrime_no_abort(vendor, p, m, s) ==
    LET mode == ModeFor(vendor)
    IN  UNION { WriteModprobe(vendor, left, m, s, << Call("write_prime", mode, "err") >>)
                : left \in { p } \cup { File(d) : d \in PartialWrites(mode) } }
        \cup WriteModprobe(vendor, File(mode), m, s, << Call("write_prime", mode, "ok") >>)

\* Graphics::set_prime_discrete (fs::write), then the rest of set_vendor.
WritePrime(vendor, p, m, s) ==
    LET mode == ModeFor(vendor)
    IN  { Ran(left, m, s, "PrimeModeWrite", "", << Call("write_prime", mode, "err") >>)
          : left \in { p } \cup { File(d) : d \in PartialWrites(mode) } }
        \cup WriteModprobe(vendor, File(mode), m, s, << Call("write_prime", mode, "ok") >>)

\* Graphics::set_vendor: every way one call can run from the current state.
set_vendor(vendor) ==
    IF switchable_or_fail # "Ok"
    THEN { Ran(prime, modprobe, service, "NotSwitchable", "", << >>) }
    ELSE WritePrime(vendor, prime, modprobe, service)

SetVendor(vendor) ==
    \E r \in set_vendor(vendor) :
        /\ prime' = r.prime
        /\ modprobe' = r.modprobe
        /\ service' = r.service
        /\ last' = Returned("set_vendor", vendor, r.err, r.val, r.calls, NoPre)
        /\ UNCHANGED << topology, busState >>

(* ------------------- GraphicsDevice::unbind / remove ------------------ *)

\* Every OS call of these operations may fail with an I/O error, so an
\* operation is the set of ways it can run from a bus state: the bus it
\* leaves, its result, and the trace of the calls it issued.
Bus(pres, bnd, err, val, calls) ==
    [ present |-> pres, bound |-> bnd, err |-> err, val |-> val, calls |-> calls ]

NvidiaFunctions == UNION { Range(nvidia[i].functions) : i \in 1 .. Len(nvidia) }

\* Mutant: the lookup never sees a bound driver.
DriverLookups_blind(f, st) == { "NotFound", "err" }

\* func.driver(): Ok(driver), Err(NotFound), or Err of another kind.
DriverLookups(f, st) == { IF f \in st.bound THEN "bound" ELSE "NotFound", "err" }

\* Mutant: the existence check is missing.
PathExists_unchecked(f, pres) == TRUE

\* func.path().exists()
PathExists(f, pres) == f \in pres

\* GraphicsDevice::exists
exists(dev, pres) == \E i \in 1 .. Len(dev.functions) : PathExists(dev.functions[i], pres)

\* Mutant: the NotFound arm is missing, so no driver is an error.
UnbindArm_no_notfound(found) == IF found = "bound" THEN "unbind" ELSE "fail"

\* The match on func.driver() in unbind (graphics.rs:104-122).
UnbindArm(found) ==
    IF found = "bound" THEN "unbind" ELSE IF found = "NotFound" THEN "skip" ELSE "fail"

\* Mutant: a function is removed whether or not a driver holds it.
RemoveArm_forced(found) == IF found = "err" THEN "fail" ELSE "remove"

\* The match on func.driver() in remove (graphics.rs:132-155).
RemoveArm(found) ==
    IF found = "bound" THEN "in use" ELSE IF found = "NotFound" THEN "remove" ELSE "fail"

\* The loop of GraphicsDevice::unbind from function i on.
RECURSIVE UnbindFrom(_, _, _)
UnbindFrom(dev, i, st) ==
    IF i > Len(dev.functions) THEN { st }
    ELSE LET f == dev.functions[i]
             Looked(found) == Append(st.calls, Call("driver", f, found))
             Match(found) ==
                 IF UnbindArm(found) = "unbind"
                 THEN { Bus(st.present, st.bound, "Unbind", f,
                            Append(Looked(found), Call("unbind", f, "err"))) }
                      \cup UnbindFrom(dev, i + 1,
                               Bus(st.present, st.bound \ { f }, "Ok", "",
                                   Append(Looked(found), Call("unbind", f, "ok"))))
                 ELSE IF UnbindArm(found) = "skip"
                 THEN UnbindFrom(dev, i + 1, [ st EXCEPT !.calls = Looked(found) ])
                 ELSE { Bus(st.present, st.bound, "PciDriver", dev.id, Looked(found)) }
         IN  IF ~PathExists(f, st.present) THEN UnbindFrom(dev, i + 1, st)
             ELSE UNION { Match(found) : found \in DriverLookups(f, st) }

\* GraphicsDevice::unbind
unbind(dev, st) ==
    UnbindFrom(dev, 1, [ st EXCEPT !.calls = Append(@, Call("GraphicsDevice::unbind", dev.id, "")) ])

\* The loop of GraphicsDevice::remove from function i on.
RECURSIVE RemoveFrom(_, _, _)
RemoveFrom(dev, i, st) ==
    IF i > Len(dev.functions) THEN { st }
    ELSE LET f == dev.functions[i]
             Looked(found) == Append(st.calls, Call("driver", f, found))
             Match(found) ==
                 IF RemoveArm(found) = "in use"
                 THEN { Bus(st.present, st.bound, "DeviceInUse", f, Looked(found)) }
                 ELSE IF RemoveArm(found) = "remove"
                 THEN { Bus(st.present, st.bound, "Remove", dev.id,
                            Append(Looked(found), Call("remove", f, "err"))) }
                      \cup RemoveFrom(dev, i + 1,
                               Bus(st.present \ { f }, st.bound, "Ok", "",
                                   Append(Looked(found), Call("remove", f, "ok"))))
                 ELSE { Bus(st.present, st.bound, "PciDriver", dev.id, Looked(found)) }
         IN  IF ~PathExists(f, st.present) THEN RemoveFrom(dev, i + 1, st)
             ELSE UNION { Match(found) : found \in DriverLookups(f, st) }

\* Mutant: the first function of the device is left on the bus.
remove_skips_first(dev, st) ==
    RemoveFrom(dev, 2, [ st EXCEPT !.calls = Append(@, Call("GraphicsDevice::remove", dev.id, "")) ])

\* GraphicsDevice::remove
remove(dev, st) ==
    RemoveFrom(dev, 1, [ st EXCEPT !.calls = Append(@, Call("GraphicsDevice::remove", dev.id, "")) ])

BusNow == Bus(present, bound, "Ok", "", << >>)

\* unbind() called on the k-th NVIDIA GraphicsDevice of the snapshot.
DevUnbind(k) ==
    /\ \E r \in unbind(nvidia[k], BusNow) :
        /\ present' = r.present
        /\ bound' = r.bound
        /\ last' = Returned("unbind", k, r.err, r.val, r.calls, PreBus)
    /\ UNCHANGED << topology, vendorState >>

\* remove() called on the k-th NVIDIA GraphicsDevice of the snapshot.
DevRemove(k) ==
    /\ \E r \in remove(nvidia[k], BusNow) :
        /\ present' = r.present
        /\ bound' = r.bound
        /\ last' = Returned("remove", k, r.err, r.val, r.calls, PreBus)
    /\ UNCHANGED << topology, vendorState >>

(* ------------------- get_power / set_power / auto_power --------------- *)

\* Graphics::get_power
get_power ==
    IF switchable_or_fail # "Ok"
    THEN [ err |-> "NotSwitchable", val |-> FALSE ]
    ELSE [ err |-> "Ok", val |-> \E i \in 1 .. Len(nvidia) : exists(nvidia[i], present) ]

GetPower ==
    /\ last' = Returned("get_power", "", get_power.err, get_power.val, << >>, PreBus)
    /\ UNCHANGED << topology, busState, vendorState >>

\* The step of the chain: unbind() or remove() of one device.
RunStep(step, st) ==
    IF step.step = "unbind" THEN unbind(step.dev, st) ELSE remove(step.dev, st)

\* Mutant: each device is unbound and removed before the next is touched.
RECURSIVE Interleaved(_)
Interleaved(i) ==
    IF i > Len(nvidia) THEN << >>
    ELSE << [ step |-> "unbind", dev |-> nvidia[i] ], [ step |-> "remove", dev |-> nvidia[i] ] >>
         \o Interleaved(i + 1)
PowerOffSteps_interleaved == Interleaved(1)

\* unbinds.chain(removes): one lazy step per NVIDIA device and phase.
PowerOffSteps ==
    [ i \in 1 .. Len(nvidia) |-> [ step |-> "unbind", dev |-> nvidia[i] ] ]
    \o [ i \in 1 .. Len(nvidia) |-> [ step |-> "remove", dev |-> nvidia[i] ] ]

\* Mutant: every step is run (an eager collect), the first error is kept.
RECURSIVE from_iter_eager(_, _)
from_iter_eager(steps, st) ==
    IF steps = << >> THEN { st }
    ELSE UNION { IF r.err # "Ok"
                 THEN { [ t EXCEPT !.err = r.err, !.val = r.val ]
                        : t \in from_iter_eager(Tail(steps), [ r EXCEPT !.err = "Ok" ]) }
                 ELSE from_iter_eager(Tail(steps), r)
                 : r \in RunStep(Head(steps), st) }

\* Result::from_iter: run the steps in order, stop at the first Err.
RECURSIVE from_iter(_, _)
from_iter(steps, st) ==
    IF steps = << >> THEN { st }
    ELSE UNION { IF r.err # "Ok" THEN { r } ELSE from_iter(Tail(steps), r)
                 : r \in RunStep(Head(steps), st) }

\* self.bus.rescan(): fails, or brings every removed function back; the
\* kernel may bind a driver to any function that came back.
rescan(st) ==
    { Bus(st.present, st.bound, "Rescan", "", Append(st.calls, Call("rescan", "", "err"))) }
    \cup { Bus(AllIds, st.bound \cup probed, "Ok", "", Append(st.calls, Call("rescan", "", "ok")))
           : probed \in SUBSET (AllIds \ st.present) }

\* Mutant: only the power-on branch asks whether the machine can switch.
set_power_gate_on_only(power, st) ==
    IF power
    THEN IF switchable_or_fail # "Ok"
         THEN { Bus(st.present, st.bound, "NotSwitchable", "", st.calls) }
         ELSE rescan(st)
    ELSE from_iter(PowerOffSteps, st)

\* Graphics::set_power: every way one call can run from bus state st.
set_power(power, st) ==
    IF switchable_or_fail # "Ok"
    THEN { Bus(st.present, st.bound, "NotSwitchable", "", st.calls) }
    ELSE IF power THEN rescan(st)
    ELSE from_iter(PowerOffSteps, st)

\* Mutant: the snapshot follows the live bus after a power operation.
SetPower_tracks_bus(power) ==
    /\ \E r \in set_power(power, BusNow) :
        LET live == SelectSeq(devs, LAMBDA d : d.id \in r.present)
        IN  /\ present' = r.present
            /\ bound' = r.bound
            /\ last' = Returned("set_power", power, r.err, r.val, r.calls, PreBus)
            /\ amd' = Bucket(live, "amd")
            /\ intel' = Bucket(live, "intel")
            /\ nvidia' = Bucket(live, "nvidia")
            /\ other' = Bucket(live, "other")
    /\ UNCHANGED << devs, vendorState >>

SetPower(power) ==
    /\ \E r \in set_power(power, BusNow) :
        /\ present' = r.present
        /\ bound' = r.bound
        /\ last' = Returned("set_power", power, r.err, r.val, r.calls, PreBus)
    /\ UNCHANGED << topology, vendorState >>

\* Mutant: the power is switched on for integrated and off otherwise.
auto_power_inverted(modules, file, st) ==
    LET vendor == get_vendor(modules, file)
    IN  IF vendor.err # "Ok"
        THEN { Bus(st.present, st.bound, vendor.err, "", st.calls) }
        ELSE set_power(vendor.val = "integrated", st)

\* Graphics::auto_power
auto_power(modules, file, st) ==
    LET vendor == get_vendor(modules, file)
    IN  IF vendor.err # "Ok"
        THEN { Bus(st.present, st.bound, vendor.err, "", st.calls) }
        ELSE set_power(vendor.val # "integrated", st)

AutoPower(modules) ==
    /\ \E r \in auto_power(modules, prime, BusNow) :
        /\ present' = r.present
        /\ bound' = r.bound
        /\ last' = Returned("auto_power", modules, r.err, r.val, r.calls, PreBus)
    /\ UNCHANGED << topology, vendorState >>

(* -------------------------- capability lookup ------------------------- *)

ReadFailed == [ ok |-> FALSE, data |-> << >> ]
ReadOk(data) == [ ok |-> TRUE, data |-> data ]

StrSystem76 == << "S", "y", "s", "t", "e", "m", "7", "6" >>
StrAddw1 == << "a", "d", "d", "w", "1" >>
StrGalp5 == << "g", "a", "l", "p", "5" >>

\* hotplug::REQUIRES_NVIDIA: the models whose external displays hang off
\* the discrete GPU.
REQUIRES_NVIDIA == { StrAddw1 }

\* const DEFAULT_INTEGRATED: &[&str] = &[]
DEFAULT_INTEGRATED == { }

\* What /sys/class/dmi/id/product_version and sys_vendor may read as.
ProductReads == { ReadFailed, ReadOk(StrAddw1 \o << "\n" >>), ReadOk(StrGalp5 \o << "\n" >>) }
SysVendorReads == { ReadFailed, ReadOk(StrSystem76 \o << "\n" >>), ReadOk(<< "D", "e", "l", "l", "\n" >>) }

\* u32::from_str_radix: the digits of `s` in the radix, or a parse error.
Digits ==
    [ c \in { "0", "1", "2", "3", "4", "5", "6", "7", "8", "9" } |->
        CASE c = "0" -> 0 [] c = "1" -> 1 [] c = "2" -> 2 [] c = "3" -> 3 [] c = "4" -> 4
          [] c = "5" -> 5 [] c = "6" -> 6 [] c = "7" -> 7 [] c = "8" -> 8 [] c = "9" -> 9 ]
    @@ [ c \in { "a", "b", "c", "d", "e", "f" } |->
        CASE c = "a" -> 10 [] c = "b" -> 11 [] c = "c" -> 12 [] c = "d" -> 13
          [] c = "e" -> 14 [] c = "f" -> 15 ]
    @@ [ c \in { "A", "B", "C", "D", "E", "F" } |->
        CASE c = "A" -> 10 [] c = "B" -> 11 [] c = "C" -> 12 [] c = "D" -> 13
          [] c = "E" -> 14 [] c = "F" -> 15 ]

RECURSIVE DigitsValue(_, _)
DigitsValue(s, radix) ==
    IF s = << >> THEN 0
    ELSE DigitsValue(SubSeq(s, 1, Len(s) - 1), radix) * radix + Digits[s[Len(s)]]

from_str_radix(s, radix) ==
    IF s = << >> \/ \E i \in 1 .. Len(s) : s[i] \notin DOMAIN Digits \/ Digits[s[i]] >= radix
    THEN [ ok |-> FALSE, val |-> 0 ]
    ELSE [ ok |-> TRUE, val |-> DigitsValue(s, radix) ]

\* str::trim_start_matches("0x")
RECURSIVE TrimStart0x(_)
TrimStart0x(s) ==
    IF Len(s) >= 2 /\ s[1] = "0" /\ s[2] = "x" THEN TrimStart0x(SubSeq(s, 3, Len(s))) ELSE s

\* version.split('.').next()
FirstComponent(s) ==
    IF \E i \in 1 .. Len(s) : s[i] = "."
    THEN SubSeq(s, 1, (CHOOSE i \in 1 .. Len(s) : s[i] = "." /\ \A j \in 1 .. i - 1 : s[j] # ".") - 1)
    ELSE s

\* Graphics::nvidia_version
nvidia_version(read) ==
    IF ~read.ok THEN [ err |-> "SysFs", val |-> << >> ]
    ELSE [ err |-> "Ok", val |-> Trim(read.data) ]

\* Graphics::get_nvidia_device_id
get_nvidia_device_id(read) ==
    IF ~read.ok THEN [ err |-> "SysFs", val |-> 0 ]
    ELSE LET id == from_str_radix(Trim(TrimStart0x(read.data)), 16)
         IN  IF id.ok THEN [ err |-> "Ok", val |-> id.val ] ELSE [ err |-> "SysFs", val |-> 0 ]

\* supported-gpus.json of the driver documentation: missing, unparsable, or
\* a list of chips; it is installed for one major version of the driver.
NoChip == [ devid |-> << >>, features |-> {} ]
DbMissing == [ ok |-> FALSE, parsed |-> FALSE, chips |-> << >> ]
DbUnparsable == [ ok |-> TRUE, parsed |-> FALSE, chips |-> << >> ]
Db(chips) == [ ok |-> TRUE, parsed |-> TRUE, chips |-> chips ]
ReadDb(docs, major) == IF major = docs.major THEN docs.file ELSE DbMissing

\* Graphics::get_nvidia_device
get_nvidia_device(id, versionRead, docs) ==
    LET version == nvidia_version(versionRead)
        parsed == from_str_radix(FirstComponent(version.val), 10)
        major == IF parsed.ok THEN parsed.val ELSE 0
        raw == ReadDb(docs, major)
        did(dev) == LET n == from_str_radix(Trim(TrimStart0x(dev.devid)), 16)
                    IN  IF n.ok THEN n.val ELSE 0
        hits == { i \in 1 .. Len(raw.chips) : did(raw.chips[i]) = id }
    IN  IF version.err # "Ok" THEN [ err |-> "SysFs", val |-> NoChip ]
        ELSE IF ~raw.ok \/ ~raw.parsed THEN [ err |-> "Json", val |-> NoChip ]
        ELSE IF hits # {}
        THEN [ err |-> "Ok", val |-> raw.chips[CHOOSE i \in hits : \A j \in hits : i <= j] ]
        ELSE [ err |-> "Json", val |-> NoChip ]

\* Graphics::gpu_supports_runtimepm, given what the device-id file, the
\* driver-version file and the documentation directory hold.
gpu_supports_runtimepm(lookup) ==
    LET id == get_nvidia_device_id(lookup.device)
        dev == get_nvidia_device(id.val, lookup.version, lookup.docs)
    IN  IF id.err # "Ok" THEN [ err |-> id.err, val |-> FALSE ]
        ELSE IF dev.err # "Ok" THEN [ err |-> dev.err, val |-> FALSE ]
        ELSE [ err |-> "Ok", val |-> "runtimepm" \in dev.val.features ]

\* The lookups a call may meet: each file unreadable or malformed, the
\* database missing, unparsable, without the device, or listing it.
Chip(devid, features) == [ devid |-> devid, features |-> features ]
ChipTuring == Chip(<< "0", "x", "1", "F", "9", "1" >>, { "runtimepm", "dp" })
ChipKepler == Chip(<< "0", "x", "0", "F", "C", "9" >>, { "dp" })
ChipTuringOld == Chip(<< "0", "x", "1", "f", "9", "1" >>, { })
DeviceTuring == ReadOk(<< "0", "x", "1", "f", "9", "1", "\n" >>)
DeviceKepler == ReadOk(<< "0", "x", "0", "f", "c", "9", "\n" >>)
Version535 == ReadOk(<< "5", "3", "5", ".", "8", "6", "\n" >>)
Docs535(file) == [ major |-> 535, file |-> file ]
Lookup(device, version, docs) == [ device |-> device, version |-> version, docs |-> docs ]
RuntimePmLookups ==
    { Lookup(ReadFailed, Version535, Docs535(Db(<< ChipTuring >>))),
      Lookup(ReadOk(<< "\n" >>), Version535, Docs535(Db(<< ChipTuring >>))),
      Lookup(DeviceTuring, ReadFailed, Docs535(Db(<< ChipTuring >>))),
      Lookup(DeviceTuring, ReadOk(<< "4", "7", "0", ".", "1", "\n" >>), Docs535(Db(<< ChipTuring >>))),
      Lookup(DeviceTuring, Version535, Docs535(DbMissing)),
      Lookup(DeviceTuring, Version535, Docs535(DbUnparsable)),
      Lookup(DeviceTuring, Version535, Docs535(Db(<< ChipKepler >>))),
      Lookup(DeviceKepler, Version535, Docs535(Db(<< ChipTuring, ChipKepler >>))),
      Lookup(DeviceTuring, Version535, Docs535(Db(<< ChipTuringOld, ChipTuring >>))),
      Lookup(DeviceTuring, Version535, Docs535(Db(<< ChipKepler, ChipTuring >>))) }

\* What gpu_supports_runtimepm() may return: an error of the lookup chain
\* (device id, driver version, database), or whether the feature is listed.
RuntimePmResults == { gpu_supports_runtimepm(l) : l \in RuntimePmLookups }

\* Graphics::get_external_displays_require_dgpu
get_external_displays_require_dgpu(product) ==
    IF switchable_or_fail # "Ok" THEN [ err |-> "NotSwitchable", val |-> FALSE ]
    ELSE IF ~product.ok THEN [ err |-> "SysFs", val |-> FALSE ]
    ELSE [ err |-> "Ok", val |-> Trim(product.data) \in REQUIRES_NVIDIA ]

\* Mutant: an error of the runtime-PM lookup is returned to the caller.
get_default_graphics_strict(product, supports, sysVendor) ==
    IF switchable_or_fail # "Ok" THEN [ err |-> "NotSwitchable", val |-> "" ]
    ELSE IF ~product.ok THEN [ err |-> "SysFs", val |-> "" ]
    ELSE IF supports.err # "Ok" THEN [ err |-> supports.err, val |-> "" ]
    ELSE IF ~sysVendor.ok THEN [ err |-> "SysFs", val |-> "" ]
    ELSE IF Trim(sysVendor.data) # StrSystem76 THEN [ err |-> "Ok", val |-> "nvidia" ]
    ELSE IF supports.val /\ Trim(product.data) \notin DEFAULT_INTEGRATED
    THEN [ err |-> "Ok", val |-> "hybrid" ]
    ELSE [ err |-> "Ok", val |-> "integrated" ]

\* Graphics::get_default_graphics
get_default_graphics(product, supports, sysVendor) ==
    IF switchable_or_fail # "Ok" THEN [ err |-> "NotSwitchable", val |-> "" ]
    ELSE IF ~product.ok THEN [ err |-> "SysFs", val |-> "" ]
    ELSE LET blacklisted == Trim(product.data) \in DEFAULT_INTEGRATED
             \* Result::unwrap_or_default
             runtimepm == IF supports.err = "Ok" THEN supports.val ELSE FALSE
         IN  IF ~sysVendor.ok THEN [ err |-> "SysFs", val |-> "" ]
             ELSE IF Trim(sysVendor.data) # StrSystem76 THEN [ err |-> "Ok", val |-> "nvidia" ]
             ELSE IF runtimepm /\ ~blacklisted THEN [ err |-> "Ok", val |-> "hybrid" ]
             ELSE [ err |-> "Ok", val |-> "integrated" ]

GetExternalDisplaysRequireDgpu(product) ==
    /\ last' = LET r == get_external_displays_require_dgpu(product)
               IN  Returned("get_external_displays_require_dgpu", product, r.err, r.val, << >>, NoPre)
    /\ UNCHANGED << topology, busState, vendorState >>

GetDefaultGraphics(product, lookup, sysVendor) ==
    /\ last' = LET r == get_default_graphics(product, gpu_supports_runtimepm(lookup), sysVendor)
               IN  Returned("get_default_graphics",
                            [ product |-> product, lookup |-> lookup, sysVendor |-> sysVendor ],
                            r.err, r.val, << >>, NoPre)
    /\ UNCHANGED << topology, busState, vendorState >>

(* --------------------------- specifications --------------------------- *)

\* Files the machine may hold before the first call.
PaddedOff == << " ", "o", "f", "f", " ", "\n" >>
UpperOff == << "O", "F", "F", "\n" >>
InitPrimeFiles == { NoFile, File(ModeOnDemand), File(PaddedOff), File(UpperOff) }
StaleModprobe == << "options nvidia-drm modeset=0", "blacklist nouveau" >>
InitModprobeFiles == { NoFile, File(StaleModprobe) }

\* Graphics::new on the hardware `devs`: the rescan makes every function
\* present, and the scan fills the four buckets.
Scanned(pops) ==
    /\ devs \in pops
    /\ amd = Bucket(devs, "amd")
    /\ intel = Bucket(devs, "intel")
    /\ nvidia = Bucket(devs, "nvidia")
    /\ other = Bucket(devs, "other")
    /\ present = AllIds
    /\ last = Returned("new", "", "Ok", "", << Call("rescan", "", "ok") >>, NoPre)

\* Drivers: every function that is not part of an NVIDIA GPU keeps its
\* driver; each function of an NVIDIA GPU has one bound or not.
AnyBinding == \E S \in SUBSET NvidiaFunctions : bound = (AllIds \ NvidiaFunctions) \cup S
AllBound == bound = AllIds

AnyFiles ==
    /\ prime \in InitPrimeFiles
    /\ modprobe \in InitModprobeFiles
    /\ service \in BOOLEAN

\* Machines with any mix of display controllers and at most one NVIDIA GPU.
LaptopPopulations ==
    { Population(n, i, a, o) : n \in 0 .. 1, i \in BOOLEAN, a \in BOOLEAN, o \in BOOLEAN }

\* Machines with up to MaxNvidia NVIDIA GPUs, with or without an Intel GPU.
MultiGpuPopulations ==
    { Population(n, i, FALSE, FALSE) : n \in 0 .. MaxNvidia, i \in BOOLEAN }

\* The vendor-mode operations and the capability queries.
InitVendor == Scanned(LaptopPopulations) /\ AllBound /\ AnyFiles

\* The power operations.
InitPower ==
    /\ Scanned(MultiGpuPopulations)
    /\ AnyBinding
    /\ prime \in { NoFile, File(ModeOnDemand), File(PaddedOff) }
    /\ modprobe = NoFile
    /\ service = FALSE

QueryNext ==
    \/ CanSwitch
    \/ \E p \in ProductReads : GetExternalDisplaysRequireDgpu(p)
    \/ \E p \in { ReadFailed, ReadOk(StrGalp5 \o << "\n" >>) },
          l \in RuntimePmLookups, v \in SysVendorReads :
          GetDefaultGraphics(p, l, v)

VendorNext ==
    \/ \E v \in Vendors : SetVendor(v)
    \/ \E m \in ModuleLists : GetVendor(m)

PowerNext ==
    \/ GetPower
    \/ \E p \in BOOLEAN : SetPower(p)
    \/ \E m \in ModuleLists : AutoPower(m)
    \/ \E k \in 1 .. Len(nvidia) : DevUnbind(k)
    \/ \E k \in 1 .. Len(nvidia) : DevRemove(k)

SpecVendor == InitVendor /\ [][VendorNext \/ QueryNext]_vars
SpecPower == InitPower /\ [][PowerNext]_vars

(* ------------------------------ claims -------------------------------- *)

HasCall(calls, name) == \E i \in 1 .. Len(calls) : calls[i].call = name
CallDone(calls, name, out) == \E i \in 1 .. Len(calls) : calls[i].call = name /\ calls[i].out = out
IsPrefix(s, t) == Len(s) <= Len(t) /\ s = SubSeq(t, 1, Len(s))

\* data is word with nothing but white space before and after it.
Blank(c) == c = " " \/ c = "\n" \/ c = "\t" \/ c = "\r"
TrimmedIs(data, word) ==
    \E i \in 0 .. Len(data) : \E j \in i .. Len(data) :
        /\ SubSeq(data, i + 1, j) = word
        /\ \A k \in 1 .. Len(data) : (k <= i \/ k > j) => Blank(data[k])

\* C1: can_switch() is true iff the nvidia bucket is non-empty and the amd
\* or the intel bucket is non-empty, whatever the other bucket holds; this
\* is what a can_switch() call returns.
C1_CanSwitchIffNvidiaAndIntegrated ==
    LET stated == Len(nvidia) > 0 /\ (Len(amd) > 0 \/ Len(intel) > 0)
    IN  /\ can_switch <=> stated
        /\ last.op = "can_switch" => last.val = stated

\* C1 witness: can_switch() returned false on a machine whose only display
\* controllers are an NVIDIA one and one of another vendor.
C1_Witness ==
    /\ last.op = "can_switch" /\ last.val = FALSE
    /\ Len(nvidia) > 0 /\ Len(other) > 0 /\ Len(amd) = 0 /\ Len(intel) = 0

\* C2: from every reachable state, every call of set_vendor, set_power,
\* get_power, get_default_graphics and get_external_displays_require_dgpu,
\* however it runs, returns NotSwitchable iff can_switch() is false; and so
\* did the gated call that returned last.
C2_GatedIffNotSwitchable ==
    LET Gated(err) == (err = "NotSwitchable") <=> ~can_switch
    IN  /\ \A v \in Vendors : \A r \in set_vendor(v) : Gated(r.err)
        /\ \A p \in BOOLEAN : \A r \in set_power(p, BusNow) : Gated(r.err)
        /\ Gated(get_power.err)
        /\ \A p \in ProductReads : Gated(get_external_displays_require_dgpu(p).err)
        /\ \A p \in ProductReads, r \in RuntimePmResults, v \in SysVendorReads :
              Gated(get_default_graphics(p, r, v).err)
        /\ last.op \in { "set_vendor", "set_power", "get_power", "get_default_graphics",
                         "get_external_displays_require_dgpu" } => Gated(last.err)

\* C2 witness: get_default_graphics was refused on a machine with an NVIDIA
\* GPU but neither an Intel nor an AMD one.
C2_Witness ==
    /\ last.op = "get_default_graphics" /\ last.err = "NotSwitchable"
    /\ Len(nvidia) > 0 /\ ~can_switch

\* C3: a set_vendor(vendor) call that passes the switchable check first
\* writes the PRIME mode file, and what it writes is "on-demand\n" for
\* hybrid, "on\n" for nvidia and "off\n" for every other vendor; when the
\* write succeeds the file holds exactly that when the call returns.
C3_PrimeModeLiteral ==
    (last.op = "set_vendor" /\ last.err # "NotSwitchable") =>
        LET literal == IF last.arg = "hybrid" THEN << "o", "n", "-", "d", "e", "m", "a", "n", "d", "\n" >>
                       ELSE IF last.arg = "nvidia" THEN << "o", "n", "\n" >>
                       ELSE << "o", "f", "f", "\n" >>
        IN  /\ Len(last.calls) >= 1
            /\ last.calls[1].call = "write_prime"
            /\ last.calls[1].target = literal
            /\ last.calls[1].out = "ok" => prime = File(literal)
            /\ \A i \in 2 .. Len(last.calls) : last.calls[i].call # "write_prime"

\* C3 witness: set_vendor("compute") wrote "off\n".
C3_Witness ==
    /\ last.op = "set_vendor" /\ last.arg = "compute"
    /\ CallDone(last.calls, "write_prime", "ok")
    /\ prime = File(<< "o", "f", "f", "\n" >>)

\* C4: a set_vendor(vendor) call that reaches the modprobe step opens the
\* file truncating it and writes the template of the vendor (hybrid,
\* compute, nvidia; integrated for any other value): once opened the file
\* holds nothing but a prefix of that template, and when the write
\* succeeds it holds exactly the template.
C4_ModprobeTemplate ==
    (last.op = "set_vendor" /\ HasCall(last.calls, "open_modprobe")) =>
        LET template == IF last.arg = "hybrid" THEN MODPROBE_HYBRID
                        ELSE IF last.arg = "compute" THEN MODPROBE_COMPUTE
                        ELSE IF last.arg = "nvidia" THEN MODPROBE_NVIDIA
                        ELSE MODPROBE_INTEGRATED
        IN  /\ CallDone(last.calls, "open_modprobe", "ok") =>
                /\ modprobe.exists
                /\ IsPrefix(modprobe.data, template)
                /\ \E i \in 1 .. Len(last.calls) :
                       last.calls[i].call = "write_modprobe" /\ last.calls[i].target = template
            /\ CallDone(last.calls, "write_modprobe", "ok") => modprobe = File(template)

\* C4 witness: set_vendor with a vendor outside the four modes wrote the
\* integrated template.
C4_Witness ==
    /\ last.op = "set_vendor" /\ last.arg = "discrete"
    /\ CallDone(last.calls, "write_modprobe", "ok")
    /\ modprobe = File(MODPROBE_INTEGRATED)

\* C5: when the module list can be fetched, get_vendor() returns
\* "integrated" if neither nouveau nor nvidia is loaded, whatever the PRIME
\* file holds; otherwise "hybrid" if the PRIME file reads on-demand between
\* white space, "compute" if it reads off, and "nvidia" for any other
\* content or when the file cannot be read.
C5_GetVendor ==
    (last.op = "get_vendor" /\ last.arg.ok) =>
        LET loaded == "nouveau" \in last.arg.names \/ "nvidia" \in last.arg.names
            expected ==
                IF ~loaded THEN "integrated"
                ELSE IF prime.exists /\ TrimmedIs(prime.data, << "o", "n", "-", "d", "e", "m", "a", "n", "d" >>)
                THEN "hybrid"
                ELSE IF prime.exists /\ TrimmedIs(prime.data, << "o", "f", "f" >>)
                THEN "compute"
                ELSE "nvidia"
        IN  last.err = "Ok" /\ last.val = expected

\* C5 witness: with nvidia loaded and the PRIME file holding " off \n",
\* get_vendor() returned "compute".
C5_Witness ==
    /\ last.op = "get_vendor" /\ last.arg.ok /\ "nvidia" \in last.arg.names
    /\ prime = File(<< " ", "o", "f", "f", " ", "\n" >>)
    /\ last.val = "compute"

\* The device a last unbind() / remove() call was made on, and its functions.
LastDev == nvidia[last.arg]
LastFns == Range(LastDev.functions)
IoFault(calls) == \E i \in 1 .. Len(calls) : calls[i].out = "err"

\* C6: unbind() on a GraphicsDevice none of whose functions has a driver
\* bound (every driver lookup reports not-found) returns success, calls no
\* driver's unbind, and leaves the presence and the binding of every
\* function as they were.
C6_UnbindNoDriver ==
    (/\ last.op = "unbind"
     /\ LastFns \cap last.pre.bound = {}
     /\ ~CallDone(last.calls, "driver", "err")) =>
        /\ last.err = "Ok"
        /\ ~HasCall(last.calls, "unbind")
        /\ present = last.pre.present
        /\ bound = last.pre.bound

\* C6 witness: unbind() returned on a device whose two functions were
\* present without a driver; both lookups reported not-found.
C6_Witness ==
    /\ last.op = "unbind" /\ last.err = "Ok"
    /\ LastFns \subseteq last.pre.present
    /\ LastFns \cap last.pre.bound = {}
    /\ Cardinality({ i \in 1 .. Len(last.calls) :
                       last.calls[i].call = "driver" /\ last.calls[i].out = "NotFound" }) = 2

\* C7 as stated: remove() on a GraphicsDevice with a still-bound driver on
\* any of its functions returns the device-in-use error and removes no
\* function of the device (here even granting that no OS call fails).
C7_Original ==
    (/\ last.op = "remove"
     /\ LastFns \cap last.pre.present \cap last.pre.bound # {}
     /\ ~IoFault(last.calls)) =>
        /\ last.err = "DeviceInUse"
        /\ present = last.pre.present

\* C7 amended: remove() on a GraphicsDevice with a still-bound driver on
\* some function never succeeds, never removes a function that has a
\* driver, and removes neither the first bound function nor any function
\* after it; unless a driver lookup or a removal fails first, it returns
\* the device-in-use error naming that first bound function, after having
\* removed every existing driverless function before it.
C7_RemoveStopsAtBound ==
    (/\ last.op = "remove"
     /\ LastFns \cap last.pre.present \cap last.pre.bound # {}) =>
        LET fs == LastDev.functions
            held == { i \in 1 .. Len(fs) : fs[i] \in last.pre.present \cap last.pre.bound }
            first == CHOOSE i \in held : \A j \in held : i <= j
        IN  /\ last.err \in { "DeviceInUse", "PciDriver", "Remove" }
            /\ bound = last.pre.bound
            /\ present \subseteq last.pre.present
            /\ (last.pre.present \ present) \cap last.pre.bound = {}
            /\ \A i \in first .. Len(fs) : fs[i] \in last.pre.present => fs[i] \in present
            /\ ~IoFault(last.calls) =>
                  /\ last.err = "DeviceInUse"
                  /\ last.val = fs[first]
                  /\ \A i \in 1 .. first - 1 : fs[i] \notin present

\* C7 witness: remove() returned device-in-use for the second function
\* after removing the first one.
C7_Witness ==
    /\ last.op = "remove" /\ last.err = "DeviceInUse"
    /\ last.val = LastDev.functions[2]
    /\ LastDev.functions[1] \in last.pre.present
    /\ LastDev.functions[1] \notin present

\* The trace of a set_power(false) call: its steps are the entries of
\* unbind() and remove(); a call of a step fails when it reports an I/O
\* error or, inside remove(), finds a driver bound.
StepEntries == { "GraphicsDevice::unbind", "GraphicsDevice::remove" }
StepAt(calls, i) ==
    LET J == { j \in 1 .. i : calls[j].call \in StepEntries }
    IN  calls[CHOOSE j \in J : \A k \in J : k <= j]
Failed(calls, i) ==
    \/ calls[i].out = "err"
    \/ /\ calls[i].call = "driver" /\ calls[i].out = "bound"
       /\ StepAt(calls, i).call = "GraphicsDevice::remove"
ErrorOf(calls, i) ==
    IF calls[i].call = "driver"
    THEN IF calls[i].out = "err" THEN << "PciDriver", StepAt(calls, i).target >>
         ELSE << "DeviceInUse", calls[i].target >>
    ELSE IF calls[i].call = "unbind" THEN << "Unbind", calls[i].target >>
    ELSE << "Remove", StepAt(calls, i).target >>

\* C8: set_power(false) on a switchable machine runs unbind() on each
\* NVIDIA device in order, then remove() on each in order, and stops at the
\* first call that fails: that call ends the trace, set_power returns its
\* error, and no step after it is entered; with no failure every step runs
\* and set_power succeeds.
C8_PowerOffFailFast ==
    (last.op = "set_power" /\ last.arg = FALSE /\ last.err # "NotSwitchable") =>
        LET calls == last.calls
            n == Len(nvidia)
            steps == SelectSeq(calls, LAMBDA c : c.call \in StepEntries)
        IN  /\ Len(steps) <= 2 * n
            /\ \A k \in 1 .. Len(steps) :
                  /\ steps[k].call = IF k <= n THEN "GraphicsDevice::unbind" ELSE "GraphicsDevice::remove"
                  /\ steps[k].target = nvidia[IF k <= n THEN k ELSE k - n].id
            /\ \A i \in 1 .. Len(calls) - 1 : ~Failed(calls, i)
            /\ IF last.err = "Ok"
               THEN Len(steps) = 2 * n /\ ~Failed(calls, Len(calls))
               ELSE /\ Failed(calls, Len(calls))
                    /\ << last.err, last.val >> = ErrorOf(calls, Len(calls))

\* C8 witness: with two NVIDIA devices, the driver unbind of a function of
\* the first device failed; set_power returned that Unbind error and the
\* second device was never touched.
C8_Witness ==
    /\ last.op = "set_power" /\ last.arg = FALSE /\ Len(nvidia) = 2
    /\ last.err = "Unbind" /\ last.val \in Range(nvidia[1].functions)
    /\ Len(SelectSeq(last.calls, LAMBDA c : c.call \in StepEntries)) = 1
    /\ Range(nvidia[2].functions) \cap last.pre.bound # {}

\* C9: remove() on a GraphicsDevice whose functions are all absent returns
\* success, looks up no driver, removes nothing and leaves the bus as it
\* was, so calling it again meets the same state and does the same.
C9_RemoveAbsentNoOp ==
    (last.op = "remove" /\ LastFns \cap last.pre.present = {}) =>
        /\ last.err = "Ok"
        /\ ~HasCall(last.calls, "driver")
        /\ ~HasCall(last.calls, "remove")
        /\ present = last.pre.present
        /\ bound = last.pre.bound
        /\ LastFns \cap present = {}

\* C9 witness: remove() returned success on a device that was already gone.
C9_Witness ==
    /\ last.op = "remove" /\ last.err = "Ok"
    /\ LastFns \cap last.pre.present = {}

\* The three surfaces encode vendor mode v.
Encodes(v) ==
    /\ prime = File(IF v = "hybrid" THEN << "o", "n", "-", "d", "e", "m", "a", "n", "d", "\n" >>
                    ELSE IF v = "nvidia" THEN << "o", "n", "\n" >>
                    ELSE << "o", "f", "f", "\n" >>)
    /\ modprobe = File(IF v = "hybrid" THEN MODPROBE_HYBRID
                       ELSE IF v = "compute" THEN MODPROBE_COMPUTE
                       ELSE IF v = "nvidia" THEN MODPROBE_NVIDIA
                       ELSE MODPROBE_INTEGRATED)
    /\ service = (v = "nvidia")
VendorModes == { "integrated", "hybrid", "nvidia", "compute" }

IndexOf(calls, name) ==
    IF HasCall(calls, name)
    THEN CHOOSE i \in 1 .. Len(calls) :
             calls[i].call = name /\ \A j \in 1 .. i - 1 : calls[j].call # name
    ELSE 0

\* C11: a set_vendor(vendor) call that reaches the service toggle runs
\* systemctl once, with "enable" iff vendor is nvidia and "disable" for
\* every other value, and a zero exit leaves the service enabled iff vendor
\* is nvidia; whenever systemctl exits, with zero or with a non-zero status,
\* the call goes on to the initramfs rebuild and returns what the rebuild
\* gives: success, a rebuild error or a command error.
C11_ServiceToggleNotFatal ==
    (last.op = "set_vendor" /\ HasCall(last.calls, "systemctl")) =>
        LET calls == last.calls
            i == IndexOf(calls, "systemctl")
            final == calls[Len(calls)]
        IN  /\ calls[i].target = IF last.arg = "nvidia" THEN "enable" ELSE "disable"
            /\ \A j \in 1 .. Len(calls) : calls[j].call = "systemctl" => j = i
            /\ calls[i].out = "exit0" => service = (last.arg = "nvidia")
            /\ calls[i].out \in { "exit0", "exit1" } =>
                  /\ i < Len(calls)
                  /\ calls[i + 1].call = "command"
                  /\ final.call \in { "command", "dracut", "update-initramfs" }
                  /\ last.err = IF final.out = "spawn_err" THEN "Command"
                                ELSE IF final.call # "command" /\ final.out = "exit0" THEN "Ok"
                                ELSE "UpdateInitramfs"
                  /\ final.call = "command" => final.out = "spawn_err"

\* C11 witness: set_vendor("hybrid") ran "systemctl disable", which exited
\* non-zero, and still returned success after the rebuild.
C11_Witness ==
    /\ last.op = "set_vendor" /\ last.arg = "hybrid" /\ last.err = "Ok"
    /\ CallDone(last.calls, "systemctl", "exit1")
    /\ last.calls[IndexOf(last.calls, "systemctl")].target = "disable"

RebuildTools == { "dracut", "update-initramfs" }

\* C12: in a set_vendor call that reaches the initramfs step, once the
\* presence check `command -v dracut` has exited exactly one rebuild tool is
\* run: `dracut --force` iff the check exited zero, `update-initramfs -u`
\* otherwise; a non-zero exit of the tool that ran makes set_vendor return
\* the initramfs-rebuild error carrying that exit status and a zero exit
\* makes it return success. (A check or a tool that cannot be started makes
\* it return a command error; after a check that could not be started no
\* tool is run.)
C12_OneRebuildTool ==
    (last.op = "set_vendor" /\ HasCall(last.calls, "command")) =>
        LET calls == last.calls
            i == IndexOf(calls, "command")
            tools == { j \in 1 .. Len(calls) : calls[j].call \in RebuildTools }
        IN  /\ Cardinality(tools) = IF calls[i].out = "spawn_err" THEN 0 ELSE 1
            /\ \A j \in tools :
                  /\ j = i + 1 /\ j = Len(calls)
                  /\ calls[j].call = IF calls[i].out = "exit0" THEN "dracut" ELSE "update-initramfs"
                  /\ calls[j].target = IF calls[i].out = "exit0" THEN "--force" ELSE "-u"
                  /\ calls[j].out = "exit0" => last.err = "Ok"
                  /\ calls[j].out \notin { "exit0", "spawn_err" } =>
                        last.err = "UpdateInitramfs" /\ last.val = calls[j].out
                  /\ calls[j].out = "spawn_err" => last.err = "Command"
            /\ calls[i].out = "spawn_err" => last.err = "Command" /\ i = Len(calls)

\* C12 witness: dracut is absent, update-initramfs -u ran and exited with
\* status 2, and set_vendor returned the rebuild error carrying 2.
C12_Witness ==
    /\ last.op = "set_vendor" /\ last.err = "UpdateInitramfs" /\ last.val = "exit2"
    /\ CallDone(last.calls, "command", "exit1")
    /\ CallDone(last.calls, "update-initramfs", "exit2")
    /\ ~HasCall(last.calls, "dracut")

\* C13: auto_power() runs as set_power(get_vendor() != "integrated") runs
\* from the same bus: on a switchable machine it enters the unbind / remove
\* chain and never rescans iff get_vendor() gives "integrated", and does
\* nothing but the bus rescan for hybrid, nvidia and compute; an error of
\* get_vendor() is returned with no call made and the bus as it was.
C13_AutoPower ==
    (last.op = "auto_power") =>
        LET vendor == get_vendor(last.arg, prime)
            start == Bus(last.pre.present, last.pre.bound, "Ok", "", << >>)
            got == Bus(present, bound, last.err, last.val, last.calls)
        IN  IF vendor.err # "Ok"
            THEN /\ last.err = vendor.err
                 /\ last.calls = << >>
                 /\ present = last.pre.present /\ bound = last.pre.bound
            ELSE /\ got \in set_power(vendor.val # "integrated", start)
                 /\ can_switch =>
                       IF vendor.val = "integrated"
                       THEN /\ ~HasCall(last.calls, "rescan")
                            /\ last.calls[1] = Call("GraphicsDevice::unbind", nvidia[1].id, "")
                       ELSE /\ Len(last.calls) = 1
                            /\ last.calls[1].call = "rescan"

\* C13 witness: with i915 alone loaded auto_power() unbound and removed the
\* NVIDIA GPU, whose functions were present on the bus.
C13_Witness ==
    /\ last.op = "auto_power" /\ last.err = "Ok"
    /\ last.arg.ok /\ last.arg.names = { "i915" }
    /\ NvidiaFunctions # {}
    /\ NvidiaFunctions \subseteq last.pre.present
    /\ NvidiaFunctions \cap last.pre.bound # {}
    /\ NvidiaFunctions \cap present = {}

\* C14: on a switchable machine whose model and vendor strings can be read,
\* get_default_graphics() returns "nvidia" when the vendor string is not
\* System76, otherwise "hybrid" when the runtime-PM lookup succeeds with the
\* feature listed and the model is not in the exclusion list, otherwise
\* "integrated"; a failing runtime-PM lookup (device id or driver version
\* unreadable, database missing or unparsable, device not listed) counts as
\* unsupported and never is the call's error: the call fails only with the
\* sysfs error of an unreadable model or vendor string.
C14_DefaultGraphics ==
    (last.op = "get_default_graphics" /\ can_switch) =>
        LET a == last.arg
            supports == gpu_supports_runtimepm(a.lookup)
            oem == TrimmedIs(a.sysVendor.data, << "S", "y", "s", "t", "e", "m", "7", "6" >>)
            excluded == \E model \in DEFAULT_INTEGRATED : TrimmedIs(a.product.data, model)
        IN  /\ (a.product.ok /\ a.sysVendor.ok) =>
                /\ last.err = "Ok"
                /\ last.val = IF ~oem THEN "nvidia"
                              ELSE IF supports.err = "Ok" /\ supports.val /\ ~excluded THEN "hybrid"
                              ELSE "integrated"
            /\ last.err # "Ok" =>
                /\ last.err = "SysFs"
                /\ ~a.product.ok \/ ~a.sysVendor.ok

\* C14 witness: on a System76 machine whose GPU is not in the database the
\* lookup failed and get_default_graphics() returned "integrated".
C14_Witness ==
    /\ last.op = "get_default_graphics" /\ last.err = "Ok" /\ last.val = "integrated"
    /\ gpu_supports_runtimepm(last.arg.lookup).err = "Json"
    /\ last.arg.lookup.docs.file.parsed
    /\ get_nvidia_device_id(last.arg.lookup.device).err = "Ok"

\* The place of an OS call in the step order of set_vendor: (a) the PRIME
\* write, (b) the modprobe open and write, (c) the service toggle, (d) the
\* presence check and the rebuild tool.
StepRank(c) ==
    CASE c.call = "write_prime" -> 1
      [] c.call = "open_modprobe" -> 2
      [] c.call = "write_modprobe" -> 3
      [] c.call = "systemctl" -> 4
      [] c.call = "command" -> 5
      [] c.call \in RebuildTools -> 6
      [] OTHER -> 0

\* A call that makes its step fail: a file operation that reports an error,
\* a command that cannot be started, a rebuild tool that exits non-zero.
StepFailed(c) ==
    \/ c.out \in { "err", "spawn_err" }
    \/ c.call \in RebuildTools /\ c.out # "exit0"

\* C15: every set_vendor call that passes the switchable check issues its
\* OS calls in the order PRIME write, modprobe open and write, service
\* toggle, presence check and rebuild tool, none skipped; a call that fails
\* is the last one made and the call returns an error, so that a failed
\* PRIME write leaves the modprobe file and the service as they were and
\* runs no command, a failed modprobe open or write leaves the service as it
\* was and runs no command, and only a call that ran all six returns success.
C15_StepsInOrder ==
    [][ (last'.op = "set_vendor" /\ last'.err # "NotSwitchable") =>
          LET calls == last'.calls
              n == Len(calls)
          IN  /\ n >= 1 /\ n <= 6
              /\ \A i \in 1 .. n : StepRank(calls[i]) = i
              /\ \A i \in 1 .. n - 1 : ~StepFailed(calls[i])
              /\ (last'.err = "Ok") <=> (n = 6 /\ ~StepFailed(calls[n]))
              /\ last'.err # "Ok" => StepFailed(calls[n])
              /\ ~CallDone(calls, "write_prime", "ok") =>
                    (prime' = prime \/ (prime'.exists /\ IsPrefix(prime'.data, calls[1].target)))
              /\ ~CallDone(calls, "open_modprobe", "ok") => modprobe' = modprobe
              /\ ~CallDone(calls, "systemctl", "exit0") => service' = service
              /\ StepFailed(calls[1]) => n = 1
              /\ (n >= 2 /\ StepFailed(calls[2])) => n = 2
              /\ (n >= 3 /\ StepFailed(calls[3])) => n = 3 ]_vars

\* C15 witness: set_vendor failed to open the modprobe file after writing
\* the PRIME file: the stale modprobe file is untouched and no command ran.
C15_Witness ==
    /\ last.op = "set_vendor" /\ last.err = "ModprobeFileOpen"
    /\ Len(last.calls) = 2
    /\ CallDone(last.calls, "write_prime", "ok")
    /\ modprobe = File(StaleModprobe)

\* C16: in a set_power(false) call on a switchable machine, when remove()
\* is entered for any NVIDIA GraphicsDevice, unbind() has been entered
\* before it for every NVIDIA GraphicsDevice of the snapshot, once each, and
\* nothing has failed up to then: no driver lookup and no driver unbind
\* reported an error; a call in which an unbind fails enters no remove().
C16_UnbindAllThenRemove ==
    (last.op = "set_power" /\ last.arg = FALSE /\ last.err # "NotSwitchable") =>
        LET calls == last.calls
            unbinds == { i \in 1 .. Len(calls) : calls[i].call = "GraphicsDevice::unbind" }
            removes == { i \in 1 .. Len(calls) : calls[i].call = "GraphicsDevice::remove" }
            heads == { nvidia[k].id : k \in 1 .. Len(nvidia) }
        IN  /\ \A r \in removes :
                  /\ \A u \in unbinds : u < r
                  /\ { calls[u].target : u \in unbinds } = heads
                  /\ Cardinality(unbinds) = Len(nvidia)
                  /\ \A j \in 1 .. r - 1 : calls[j].out # "err"
            /\ (\E j \in 1 .. Len(calls) : calls[j].call = "unbind" /\ calls[j].out = "err")
                  => removes = {}

\* C16 witness: with two NVIDIA GPUs, all functions bound, set_power(false)
\* unbound both devices, then removed both.
C16_Witness ==
    /\ last.op = "set_power" /\ last.arg = FALSE /\ last.err = "Ok"
    /\ Len(nvidia) = 2
    /\ NvidiaFunctions \subseteq last.pre.bound
    /\ NvidiaFunctions \cap present = {}
    /\ Cardinality({ i \in 1 .. Len(last.calls) : last.calls[i].call = "GraphicsDevice::remove" }) = 2

\* The functions that have a driver bound just before the i-th OS call of
\* the operation that returned last: those bound when it started, less the
\* ones it has unbound by then.
BoundAt(i) ==
    last.pre.bound \ { last.calls[j].target : j \in { k \in 1 .. i - 1 :
                          last.calls[k].call = "unbind" /\ last.calls[k].out = "ok" } }

\* C17: with the calls into the core run one at a time, every removal that
\* remove(), set_power or auto_power issues is issued on a function that
\* exists and has no driver bound at that moment, right after a driver
\* lookup on that function reported not-found; so no function that left
\* the bus during the call has a driver bound.
C17_NoRemovalWhileBound ==
    (last.op \in { "remove", "set_power", "auto_power" }) =>
        /\ \A i \in 1 .. Len(last.calls) :
              last.calls[i].call = "remove" =>
                  /\ last.calls[i].target \notin BoundAt(i)
                  /\ i > 1
                  /\ last.calls[i - 1] = Call("driver", last.calls[i].target, "NotFound")
        /\ (last.pre.present \ present) \cap bound = {}
        /\ last.pre.present \ present
              = { last.calls[i].target : i \in { k \in 1 .. Len(last.calls) :
                      last.calls[k].call = "remove" /\ last.calls[k].out = "ok" } }

\* C17 witness: set_power(false) removed a function that had a driver when
\* the call started, after unbinding that driver.
C17_Witness ==
    /\ last.op = "set_power" /\ last.arg = FALSE
    /\ \E f \in NvidiaFunctions \cap last.pre.bound :
          /\ CallDone(last.calls, "unbind", "ok")
          /\ \E i, j \in 1 .. Len(last.calls) :
                /\ i < j
                /\ last.calls[i] = Call("unbind", f, "ok")
                /\ last.calls[j] = Call("remove", f, "ok")
          /\ f \notin present

\* C18: after the scan, every GraphicsDevice of the four buckets is headed
\* by a PCI function whose class code has 0x03 in its top byte, every such
\* function heads exactly one GraphicsDevice, in the bucket of its vendor id
\* (0x1002 amd, 0x10DE nvidia, 0x8086 intel, anything else other) and in no
\* other, and a function of another class heads none.
C18_BucketsPartitionDisplays ==
    LET bucket == [ b \in { "amd", "intel", "nvidia", "other" } |->
                      CASE b = "amd" -> amd [] b = "intel" -> intel
                        [] b = "nvidia" -> nvidia [] OTHER -> other ]
        places(id) == { << b, i >> \in (DOMAIN bucket) \X (1 .. Len(devs)) :
                          i <= Len(bucket[b]) /\ bucket[b][i].id = id }
        display(d) == (d.class \div 65536) % 256 = 3
        home(d) == IF d.vendor = 4098 THEN "amd"
                   ELSE IF d.vendor = 4318 THEN "nvidia"
                   ELSE IF d.vendor = 32902 THEN "intel"
                   ELSE "other"
    IN  /\ \A b \in DOMAIN bucket : \A i \in 1 .. Len(bucket[b]) :
              \E k \in 1 .. Len(devs) : devs[k].id = bucket[b][i].id /\ display(devs[k])
        /\ \A k \in 1 .. Len(devs) :
              IF display(devs[k])
              THEN /\ Cardinality(places(devs[k].id)) = 1
                   /\ \A pl \in places(devs[k].id) : pl[1] = home(devs[k])
              ELSE places(devs[k].id) = {}

\* C18 witness: a scan of a machine with an Intel, an NVIDIA, an AMD and a
\* fourth vendor's display controller filled all four buckets; the NVIDIA
\* GPU's audio function heads no device.
C18_Witness ==
    /\ last.op = "new"
    /\ Len(amd) = 1 /\ Len(intel) = 1 /\ Len(nvidia) = 1 /\ Len(other) = 1
    /\ Len(nvidia[1].functions) = 2
    /\ Len(devs) = 6

\* C19: whenever set_power(false) returns success on a switchable machine,
\* no function of any NVIDIA GraphicsDevice exists on the bus and
\* get_power() returns false; and get_power() on a switchable machine goes
\* from false to true only in a call that rescanned the bus successfully.
C19_PoweredOffUntilRescan ==
    [][ /\ (last'.op = "set_power" /\ last'.arg = FALSE /\ last'.err = "Ok") =>
              /\ NvidiaFunctions \cap present' = {}
              /\ get_power' = [ err |-> "Ok", val |-> FALSE ]
        /\ (can_switch /\ ~get_power.val /\ get_power'.val) =>
              /\ last'.op \in { "set_power", "auto_power" }
              /\ CallDone(last'.calls, "rescan", "ok") ]_vars

\* C19 witness: set_power(false) succeeded on a machine whose NVIDIA
\* functions were all on the bus, and get_power() is now false.
C19_Witness ==
    /\ last.op = "set_power" /\ last.arg = FALSE /\ last.err = "Ok"
    /\ NvidiaFunctions # {}
    /\ NvidiaFunctions \subseteq last.pre.present
    /\ get_power = [ err |-> "Ok", val |-> FALSE ]

\* C20: when can_switch() is false, every way set_vendor, set_power and
\* auto_power can run from the current state issues no OS call (no file
\* write, no command, no driver unbind, no removal, no rescan) and leaves
\* the PRIME file, the modprobe file, the service registration, the
\* presence and the driver binding of every function as they are; and so
\* did the set_power or auto_power call that returned last.
C20_NotSwitchableChangesNothing ==
    ~can_switch =>
        /\ \A v \in Vendors : \A r \in set_vendor(v) :
              /\ r.calls = << >>
              /\ r.prime = prime /\ r.modprobe = modprobe /\ r.service = service
              /\ r.err = "NotSwitchable"
        /\ \A p \in BOOLEAN : \A r \in set_power(p, BusNow) :
              /\ r.calls = << >>
              /\ r.present = present /\ r.bound = bound
              /\ r.err = "NotSwitchable"
        /\ \A m \in ModuleLists : \A r \in auto_power(m, prime, BusNow) :
              /\ r.calls = << >>
              /\ r.present = present /\ r.bound = bound
              /\ r.err \in { "NotSwitchable", "ModulesFetch" }
        /\ last.op \in { "set_power", "auto_power" } =>
              /\ last.calls = << >>
              /\ present = last.pre.present /\ bound = last.pre.bound
              /\ last.err \in { "NotSwitchable", "ModulesFetch" }

\* C20 witness: on a machine with an NVIDIA GPU and no Intel or AMD GPU,
\* auto_power() with i915 alone loaded was refused and the GPU's functions
\* are still on the bus with their drivers.
C20_Witness ==
    /\ ~can_switch /\ Len(nvidia) >= 1
    /\ last.op = "auto_power" /\ last.err = "NotSwitchable"
    /\ last.arg.ok /\ last.arg.names = { "i915" }
    /\ NvidiaFunctions \subseteq present \cap bound

\* A module list that could be fetched and holds nouveau or nvidia.
DiscreteLoaded(m) == m.ok /\ ("nouveau" \in m.names \/ "nvidia" \in m.names)

\* C21 as stated: in the state a successful set_vendor(v) leaves, v one of
\* integrated, hybrid, nvidia and compute, every get_vendor() that finds
\* nouveau or nvidia loaded returns v.
C21_Original ==
    (last.op = "set_vendor" /\ last.err = "Ok" /\ last.arg \in VendorModes) =>
        \A m \in ModuleLists :
            DiscreteLoaded(m) => get_vendor(m, prime) = [ err |-> "Ok", val |-> last.arg ]

\* C21 amended: in the state a successful set_vendor(v) leaves, every
\* get_vendor() that finds nouveau or nvidia loaded returns v for v one of
\* hybrid, nvidia and compute, and returns "compute" for v = integrated;
\* "integrated" is returned exactly when neither module is loaded.
C21_RoundTripWhileLoaded ==
    (last.op = "set_vendor" /\ last.err = "Ok" /\ last.arg \in VendorModes) =>
        \A m \in ModuleLists :
            m.ok => get_vendor(m, prime) =
                        [ err |-> "Ok",
                          val |-> IF ~DiscreteLoaded(m) THEN "integrated"
                                  ELSE IF last.arg = "integrated" THEN "compute"
                                  ELSE last.arg ]

\* C21 witness: set_vendor("integrated") succeeded, and with nvidia still
\* loaded get_vendor() reads the mode back as "compute".
C21_Witness ==
    /\ last.op = "set_vendor" /\ last.err = "Ok" /\ last.arg = "integrated"
    /\ prime = File(<< "o", "f", "f", "\n" >>)
    /\ \E m \in ModuleLists :
          "nvidia" \in m.names /\ get_vendor(m, prime) = [ err |-> "Ok", val |-> "compute" ]

\* The machine was switchable when it was scanned: its hardware has an
\* NVIDIA display controller and an Intel or an AMD one.
SwitchableAtScan ==
    LET display(v) == \E k \in 1 .. Len(devs) :
                          devs[k].vendor = v /\ (devs[k].class \div 65536) % 256 = 3
    IN  display(4318) /\ (display(32902) \/ display(4098))

\* C22: no set_power(false), set_power(true) or auto_power call changes the
\* amd, intel, nvidia or other bucket, whatever it does to the bus and
\* however it returns; so can_switch() keeps the value it had at the scan,
\* and on a machine that was switchable at the scan no set_power(true),
\* after whatever power operations, returns NotSwitchable.
C22_SnapshotImmutable ==
    [][ /\ last'.op \in { "set_power", "auto_power" } =>
              /\ amd' = amd /\ intel' = intel /\ nvidia' = nvidia /\ other' = other
              /\ can_switch' = can_switch
        /\ can_switch = SwitchableAtScan
        /\ can_switch' = SwitchableAtScan'
        /\ (last'.op = "set_power" /\ last'.arg = TRUE /\ SwitchableAtScan) =>
              last'.err # "NotSwitchable"
        /\ SwitchableAtScan => \A r \in set_power(TRUE, BusNow)' : r.err # "NotSwitchable" ]_vars

\* C22 witness: after the NVIDIA GPU had been powered off and was gone from
\* the bus, set_power(true) was accepted and brought it back; the nvidia
\* bucket still holds the device.
C22_Witness ==
    /\ last.op = "set_power" /\ last.arg = TRUE /\ last.err = "Ok"
    /\ Len(nvidia) >= 1
    /\ NvidiaFunctions \cap last.pre.present = {}
    /\ NvidiaFunctions \subseteq present

====
